---- MODULE Spec2Model ----
(***************************************************************************)
(* Abuse-mitigation engine of the wildlife identification app:             *)
(* SecurityManager (security.py) - rate limiting over a sliding window of  *)
(* request timestamps, arithmetic CAPTCHA challenges, browser trust - and  *)
(* the routes of app.py that use it.                                       *)
(*                                                                         *)
(* app.py calls the manager through can_proceed / record_request(action) / *)
(* get_status / create_captcha; security.py offers check_rate_limit /      *)
(* record_request() / get_security_status / generate_captcha.  The thin    *)
(* adapters between the two are modelled from the design text (section     *)
(* 4.4) and do nothing but dispatch to the operations of security.py.      *)
(***************************************************************************)
EXTENDS Integers, Sequences, FiniteSets, TLC

(* ---- program constants: SecurityManager.__init__ ---- *)
rate_limit_window == 3600
max_requests_per_window == 2
captcha_timeout == 300
browser_trust_duration == 2592000

(* ---- bounds of the model ---- *)
MaxTicks == 3
MaxReq == 2
MaxCaptchas == 1
MaxOther == 1
MaxThreads == 3

(* ---- clients ---- *)
Sessions == {"s1", "s2", "s3"}
NoFp == "none"

\* the fingerprinted request headers a session's browser sends
Headers(s) == IF s = "s3" THEN "hB" ELSE "hA"

\* the address the requests of a session come from
ClientIp(s) == IF s = "s2" THEN "ip2" ELSE "ip1"

\* sha256 of the canonical JSON of the headers, truncated: a function of the
\* headers alone (collisions of the truncated hash are not modelled)
Fingerprint(h) == <<"fp", h>>

FPs == {Fingerprint(Headers(s)) : s \in Sessions}

\* f"{ip}:{browser_fp}"
RateLimitKey(ip, fp) == <<ip, fp>>

(* ---- dictionaries ---- *)
DictSet(d, k, v) == [x \in (DOMAIN d) \cup {k} |-> IF x = k THEN v ELSE d[x]]
\* del d[k] that leaves the entry in place
DictDel_keep(d, k) == d

\* del d[k]
DictDel(d, k) == [x \in (DOMAIN d) \ {k} |-> d[x]]
EmptyDict == [x \in {} |-> 0]

(* ---- rate limiting ---- *)
\* the filter with the boundary instant kept
InWindow_inclusive(lst, t) == SelectSeq(lst, LAMBDA r : r >= t - rate_limit_window)

\* [req_time for req_time in lst if req_time > current_time - rate_limit_window]
InWindow(lst, t) == SelectSeq(lst, LAMBDA r : r > t - rate_limit_window)

\* _cleanup_old_entries, first loop: prune every key, drop the empty ones
CleanupRequestCounts(rc, t) ==
    LET keep == {k \in DOMAIN rc : InWindow(rc[k], t) # <<>>}
    IN  [k \in keep |-> InWindow(rc[k], t)]

\* the second loop deleting every challenge
CleanupCaptchas_all(cs, t) == EmptyDict

\* the second loop deleting nothing
CleanupCaptchas_none(cs, t) == cs

\* _cleanup_old_entries, second loop
CleanupCaptchas(cs, t) ==
    LET keep == {c \in DOMAIN cs : ~(t - cs[c].timestamp > captcha_timeout)}
    IN  [c \in keep |-> cs[c]]

\* _cleanup_old_entries, third loop
CleanupTrusted(tb, t) ==
    LET keep == {f \in DOMAIN tb : ~(t - tb[f] > browser_trust_duration)}
    IN  [f \in keep |-> tb[f]]

\* the manager's three dictionaries as one value
Mgr(rc, cs, tb) == [request_counts |-> rc, captcha_sessions |-> cs, trusted_browsers |-> tb]

cleanup_old_entries(m, t) ==
    Mgr(CleanupRequestCounts(m.request_counts, t),
        CleanupCaptchas(m.captcha_sessions, t),
        CleanupTrusted(m.trusted_browsers, t))

\* check_rate_limit with the comparison > in place of >=
check_rate_limit_gt(m, key, t) ==
    LET c  == cleanup_old_entries(m, t)
        rc == IF key \in DOMAIN c.request_counts
              THEN c.request_counts
              ELSE DictSet(c.request_counts, key, <<>>)
        rp == [rc EXCEPT ![key] = InWindow(@, t)]
    IN  [m   |-> [c EXCEPT !.request_counts = rp],
         ret |-> Len(rp[key]) > max_requests_per_window]

\* check_rate_limit: cleanup, create the key, prune it, compare the count
check_rate_limit(m, key, t) ==
    LET c  == cleanup_old_entries(m, t)
        rc == IF key \in DOMAIN c.request_counts
              THEN c.request_counts
              ELSE DictSet(c.request_counts, key, <<>>)
        rp == [rc EXCEPT ![key] = InWindow(@, t)]
    IN  [m   |-> [c EXCEPT !.request_counts = rp],
         ret |-> Len(rp[key]) >= max_requests_per_window]

\* record_request: append the current time to the key's list
record_request(rc, key, t) ==
    LET r0 == IF key \in DOMAIN rc THEN rc ELSE DictSet(rc, key, <<>>)
    IN  [r0 EXCEPT ![key] = Append(@, t)]

(* ---- browser trust ---- *)
\* is_browser_trusted with the captcha timeout in place of the trust duration
is_browser_trusted_short(tb, fp, t) ==
    /\ fp # NoFp
    /\ fp \in DOMAIN tb
    /\ t - tb[fp] < captcha_timeout

is_browser_trusted(tb, fp, t) ==
    /\ fp # NoFp
    /\ fp \in DOMAIN tb
    /\ t - tb[fp] < browser_trust_duration

\* trust_browser that stores nothing
trust_browser_forget(tb, fp, t) == tb

trust_browser(tb, fp, t) == IF fp # NoFp THEN DictSet(tb, fp, t) ELSE tb

(* ---- captcha ---- *)
Operators == {"+", "-", "*"}

\* random.randint(1, 10)
MinOperand == 1
MaxOperand == 10

\* the operands presented as drawn, without the swap
CaptchaOperands_noswap(n1, n2, op) == <<n1, n2>>

\* generate_captcha: the operands after the swap for subtraction
CaptchaOperands(n1, n2, op) ==
    IF op = "-" /\ n1 < n2 THEN <<n2, n1>> ELSE <<n1, n2>>

CaptchaAnswer(n1, n2, op) ==
    LET p == CaptchaOperands(n1, n2, op)
    IN  CASE op = "+" -> p[1] + p[2]
          [] op = "-" -> p[1] - p[2]
          [] OTHER    -> p[1] * p[2]

\* text is a sequence of characters
DigitChars == <<"0", "1", "2", "3", "4", "5", "6", "7", "8", "9">>

\* f"{n}": the decimal digits of n, after a minus sign if n is negative
RECURSIVE FormatInt(_)
FormatInt(n) ==
    IF n < 0 THEN <<"-">> \o FormatInt(0 - n)
    ELSE IF n < 10 THEN <<DigitChars[n + 1]>>
    ELSE FormatInt(n \div 10) \o <<DigitChars[(n % 10) + 1]>>

\* the sign shown in the question: multiplication is shown as a cross
TimesSign == "×"
OperatorSign(op) == IF op = "*" THEN TimesSign ELSE op

\* the question text f"{num1} {sign} {num2}"
CaptchaQuestion(n1, n2, op) ==
    LET p == CaptchaOperands(n1, n2, op)
    IN  FormatInt(p[1]) \o <<" ", OperatorSign(op), " ">> \o FormatInt(p[2])

generate_captcha(cs, cid, n1, n2, op, fp, t) ==
    [cs  |-> DictSet(cs, cid, [answer |-> CaptchaAnswer(n1, n2, op),
                               timestamp |-> t,
                               browser_fp |-> fp]),
     ret |-> [captcha_id |-> cid,
              question |-> CaptchaQuestion(n1, n2, op),
              timeout |-> captcha_timeout]]

\* int(user_answer): a numeral parses to its value, other text raises
\* ValueError, a JSON value that is no text or number raises TypeError
ParseInt(ua) ==
    CASE ua.t = "int"  -> [ok |-> TRUE, v |-> ua.v]
      [] ua.t = "text" -> [ok |-> FALSE, err |-> "ValueError"]
      [] OTHER         -> [ok |-> FALSE, err |-> "TypeError"]

\* the expiry test that never fires
captcha_expired_never(c, t) == FALSE

\* current_time - captcha_data['timestamp'] > self.captcha_timeout
captcha_expired(c, t) == t - c.timestamp > captcha_timeout

\* the fingerprint test that never fires
fingerprint_differs_never(c, fp) == FALSE

\* captcha_data['browser_fp'] != session.get('browser_fingerprint')
fingerprint_differs(c, fp) == c.browser_fp # fp

\* verify_captcha.  ret is the value returned (TRUE / FALSE) or "raise" when
\* the TypeError of int() leaves the function; outcome names the return
\* statement taken.
verify_captcha(m, cid, ua, fp, t) ==
    LET cs == m.captcha_sessions
        gone == [m EXCEPT !.captcha_sessions = DictDel(cs, cid)]
    IN  IF cid \notin DOMAIN cs
        THEN [m |-> m, ret |-> FALSE, outcome |-> "InvalidChallenge"]
        ELSE IF captcha_expired(cs[cid], t)
        THEN [m |-> gone, ret |-> FALSE, outcome |-> "Expired"]
        ELSE IF fingerprint_differs(cs[cid], fp)
        THEN [m |-> gone, ret |-> FALSE, outcome |-> "FingerprintMismatch"]
        ELSE LET p == ParseInt(ua)
             IN  IF ~p.ok
                 THEN IF p.err = "ValueError"
                      THEN [m |-> gone, ret |-> FALSE, outcome |-> "MalformedAnswer"]
                      ELSE [m |-> m, ret |-> "raise", outcome |-> "TypeError"]
                 ELSE IF cs[cid].answer = p.v
                 THEN [m |-> [gone EXCEPT !.trusted_browsers =
                                  trust_browser(m.trusted_browsers, fp, t)],
                       ret |-> TRUE, outcome |-> "Success"]
                 ELSE [m |-> gone, ret |-> FALSE, outcome |-> "IncorrectAnswer"]

\* get_security_status: the dict display evaluates is_trusted, then
\* rate_limited (check_rate_limit, with its cleanup), then request_count
get_security_status(m, key, fp, t) ==
    LET tr == is_browser_trusted(m.trusted_browsers, fp, t)
        c  == check_rate_limit(m, key, t)
    IN  [m   |-> c.m,
         ret |-> [is_trusted |-> tr,
                  rate_limited |-> c.ret,
                  browser_fingerprint |-> fp,
                  request_count |-> IF key \in DOMAIN c.m.request_counts
                                    THEN Len(c.m.request_counts[key]) ELSE 0]]


(* ---- the manager as app.py calls it (section 4.4 of the design) ---- *)
Null == "null"

\* the gate applied to the feedback action instead
ProtectedAction_feedback == "feedback"

ProtectedAction == "identify"
Actions == {"identify", "feedback"}

\* can_proceed(action): other actions pass; a trusted browser passes;
\* otherwise the rate limit decides
can_proceed(m, action, key, fp, t) ==
    IF action # ProtectedAction
    THEN [m |-> m, allowed |-> TRUE, reason |-> Null]
    ELSE IF is_browser_trusted(m.trusted_browsers, fp, t)
    THEN [m |-> m, allowed |-> TRUE, reason |-> Null]
    ELSE LET c == check_rate_limit(m, key, t)
         IN  [m |-> c.m, allowed |-> ~c.ret,
              reason |-> IF c.ret THEN "captcha_required" ELSE Null]

\* record_request(action): the protected action is recorded
record_request_action(m, action, key, t) ==
    IF action # ProtectedAction
    THEN m
    ELSE [m EXCEPT !.request_counts = record_request(m.request_counts, key, t)]

\* seconds until the oldest request still counted leaves the window; 0 when
\* none is counted
window_expires_in(rc, key, t) ==
    IF key \in DOMAIN rc /\ rc[key] # <<>>
    THEN rc[key][1] + rate_limit_window - t
    ELSE 0

\* get_status(): the status record of get_security_status plus the alias,
\* the threshold and the time left in the window
get_status(m, key, fp, t) ==
    LET g == get_security_status(m, key, fp, t)
    IN  [m |-> g.m,
         ret |-> [is_trusted |-> g.ret.is_trusted,
                  rate_limited |-> g.ret.rate_limited,
                  captcha_required |-> g.ret.rate_limited,
                  request_count |-> g.ret.request_count,
                  window_expires_in |-> window_expires_in(g.m.request_counts, key, t),
                  rate_limit_threshold |-> max_requests_per_window]]

\* create_captcha(): the id and the question of generate_captcha
create_captcha(cs, cid, n1, n2, op, fp, t) ==
    LET g == generate_captcha(cs, cid, n1, n2, op, fp, t)
    IN  [cs |-> g.cs, ret |-> <<g.ret.captcha_id, g.ret.question>>]

(* ---- POST /api/security/verify ---- *)
\* success, error_code = <value returned>: a pair is unpacked, a bool raises
\* TypeError (cannot unpack non-iterable bool object)
UnpackPair(ret) ==
    IF ret \in BOOLEAN
    THEN [ok |-> FALSE, err |-> "TypeError"]
    ELSE [ok |-> TRUE, success |-> ret[1], error_code |-> ret[2]]

\* the verify route for a body that has captcha_id and answer: the manager's
\* verify_captcha, the tuple assignment, the status for the error code.  An
\* exception that leaves the view is answered with 500.
verify_route(m, cid, ua, fp, t) ==
    LET v == verify_captcha(m, cid, ua, fp, t)
    IN  IF v.outcome = "TypeError"
        THEN [m |-> v.m, http |-> 500, success |-> Null, code |-> Null]
        ELSE LET u == UnpackPair(v.ret)
             IN  IF ~u.ok
                 THEN [m |-> v.m, http |-> 500, success |-> Null, code |-> Null]
                 ELSE IF u.success
                 THEN [m |-> v.m, http |-> 200, success |-> "true", code |-> "verified"]
                 ELSE [m |-> v.m,
                       http |-> IF u.error_code # "too_many_attempts" THEN 400 ELSE 429,
                       success |-> "false", code |-> u.error_code]

(* ---- POST /identify ---- *)
Uploads == {"nofile", "emptyname", "badext", "badimage", "ok"}
CaptchaMessage == "Security verification required. Please complete the CAPTCHA challenge before continuing."

\* upload_file that records the request before it asks the gate
upload_file_record_first(m, key, fp, t, wants_json, upload) ==
    LET r == record_request_action(m, ProtectedAction, key, t)
        g == can_proceed(r, ProtectedAction, key, fp, t)
    IN  IF ~g.allowed
        THEN [m |-> g.m, http |-> IF wants_json THEN 429 ELSE 302,
              code |-> IF wants_json THEN g.reason ELSE Null,
              flash |-> IF wants_json THEN Null ELSE CaptchaMessage,
              allowed |-> FALSE, calls |-> <<"record_request", "can_proceed">>]
        ELSE [m |-> g.m, http |-> 200, code |-> Null, flash |-> Null,
              allowed |-> TRUE,
              calls |-> <<"record_request", "can_proceed", "classify">>]

\* upload_file that records the request as soon as the gate has admitted it
upload_file_record_early(m, key, fp, t, wants_json, upload) ==
    LET g == can_proceed(m, ProtectedAction, key, fp, t)
        r == record_request_action(g.m, ProtectedAction, key, t)
    IN  IF ~g.allowed
        THEN [m |-> g.m, http |-> IF wants_json THEN 429 ELSE 302,
              code |-> IF wants_json THEN g.reason ELSE Null,
              flash |-> IF wants_json THEN Null ELSE CaptchaMessage,
              allowed |-> FALSE, calls |-> <<"can_proceed">>]
        ELSE IF upload \in {"nofile", "emptyname", "badext", "badimage"}
        THEN [m |-> r, http |-> 400, code |-> Null, flash |-> Null,
              allowed |-> TRUE, calls |-> <<"can_proceed", "record_request">>]
        ELSE [m |-> r, http |-> 200, code |-> Null, flash |-> Null,
              allowed |-> TRUE, calls |-> <<"can_proceed", "record_request", "classify">>]

\* upload_file: the gate, the upload checks, record_request, the classifier.
\* calls lists the manager and classifier calls in the order they are made.
upload_file(m, key, fp, t, wants_json, upload) ==
    LET g == can_proceed(m, ProtectedAction, key, fp, t)
    IN  IF ~g.allowed
        THEN IF wants_json
             THEN LET st == get_status(g.m, key, fp, t)
                  IN  [m |-> st.m, http |-> 429, code |-> g.reason, flash |-> Null,
                       allowed |-> FALSE, calls |-> <<"can_proceed", "get_status">>]
             ELSE [m |-> g.m, http |-> 302, code |-> Null, flash |-> CaptchaMessage,
                   allowed |-> FALSE, calls |-> <<"can_proceed">>]
        ELSE IF upload \in {"nofile", "emptyname", "badext"}
        THEN [m |-> g.m, http |-> 400, code |-> Null, flash |-> Null,
              allowed |-> TRUE, calls |-> <<"can_proceed">>]
        ELSE LET r == record_request_action(g.m, ProtectedAction, key, t)
             IN  IF upload = "badimage"
                 THEN [m |-> r, http |-> 400, code |-> Null, flash |-> Null,
                       allowed |-> TRUE, calls |-> <<"can_proceed", "record_request">>]
                 ELSE [m |-> r, http |-> 200, code |-> Null, flash |-> Null,
                       allowed |-> TRUE,
                       calls |-> <<"can_proceed", "record_request", "classify">>]

\* upload_file that goes on as if the store had not failed
upload_file_fault_open(m, key, fp, t, wants_json, upload, fault) ==
    upload_file(m, key, fp, t, wants_json, upload)

\* upload_file when the manager's store raises.  In can_proceed (before the
\* try block): the exception leaves the view and the request is answered with
\* 500.  In record_request (inside the try block): the except branch renders
\* the error page.  A request that does not reach the failing call is served
\* as usual.
upload_file_fault(m, key, fp, t, wants_json, upload, fault) ==
    LET g == can_proceed(m, ProtectedAction, key, fp, t)
    IN  IF fault = "gate"
        THEN [m |-> m, http |-> 500, code |-> Null, flash |-> Null,
              allowed |-> FALSE, calls |-> <<"can_proceed">>]
        ELSE IF ~g.allowed \/ upload \in {"nofile", "emptyname", "badext"}
        THEN upload_file(m, key, fp, t, wants_json, upload)
        ELSE [m |-> g.m, http |-> 200, code |-> Null, flash |-> Null,
              allowed |-> TRUE, calls |-> <<"can_proceed", "record_request">>]


(* ---- the CSRF token of the session and the guard before the handlers ---- *)
\* a token is the n-th value secrets.token_urlsafe(32) has yielded for a session
NoToken == [sess |-> "none", n |-> 0]

\* a value no call of secrets.token_urlsafe has yielded
ForgedToken == [sess |-> "forged", n |-> 0]

\* a token made anew on every call
get_or_create_csrf_token_always(tok, s) == [sess |-> s, n |-> tok.n + 1]

\* _get_or_create_csrf_token: the session's token, made on first use
get_or_create_csrf_token(tok, s) ==
    IF tok = NoToken THEN [sess |-> s, n |-> 1] ELSE tok

CSRF_PROTECTED_METHODS == {"POST", "PUT", "PATCH", "DELETE"}
CSRF_EXEMPT_ENDPOINTS == {"static"}

\* a guard that lets every request pass
csrf_protect_open(method, endpoint, session_token, request_token) == "pass"

\* csrf_protect: "pass" when it returns None, "reject" when it returns
\* _csrf_failure_response()
csrf_protect(method, endpoint, session_token, request_token) ==
    IF method \notin CSRF_PROTECTED_METHODS THEN "pass"
    ELSE IF endpoint \in CSRF_EXEMPT_ENDPOINTS THEN "pass"
    ELSE IF session_token = NoToken THEN "reject"
    ELSE IF request_token = NoToken \/ request_token # session_token THEN "reject"
    ELSE "pass"

\* the endpoints of the security operations
PostEndpoints == {"generate_captcha", "verify_captcha", "upload_file"}

\* _csrf_failure_response: 400 for /api/ paths and JSON clients, otherwise
\* the flash and the redirect
csrf_failure_response(endpoint, wants_json) ==
    IF endpoint # "upload_file" \/ wants_json THEN 400 ELSE 302

\* security_status: the status of the manager with the route's three extra fields
security_status(m, key, fp, t, session_token, s) ==
    LET g == get_status(m, key, fp, t)
        token == get_or_create_csrf_token(session_token, s)
    IN  [m |-> g.m,
         http |-> 200,
         body |-> [f \in DOMAIN g.ret \cup {"csrf_token", "captcha_enabled",
                                            "rate_limit_window_seconds"} |->
                      CASE f = "csrf_token" -> token
                        [] f = "captcha_enabled" -> TRUE
                        [] f = "rate_limit_window_seconds" -> rate_limit_window
                        [] OTHER -> g.ret[f]]]

(* ---- state ---- *)
VARIABLES
    clients,           \* the browser sessions that talk to the server in this run
    now,               \* time.time()
    ticks,             \* how often the clock has advanced
    others,            \* how many requests the sessions other than the first have made
    session,           \* session['browser_fingerprint'] of each session, or NoFp
    csrf,              \* session['_csrf_token'] of each session, or NoToken
    request_counts,    \* SecurityManager.request_counts
    captcha_sessions,  \* SecurityManager.captcha_sessions
    trusted_browsers,  \* SecurityManager.trusted_browsers
    cinfo,             \* history: the challenges issued so far, by id
    attempted,         \* history: the challenges a verify has been made on
    consumed,          \* history: the challenges a verify has succeeded on
    vlast,             \* history: the latest verify call and its outcome
    last_success,      \* history: per fingerprint, the time of its last successful verify
    reclog,            \* history: per session, the times of its record_request calls
    gate,              \* history: per session, what the gate last decided for it
    note,              \* history: whether the latest request was a status read, a
                       \* request of another action or a request the store failed in
    draw,              \* what random.randint and random.choice yield in generate_captcha
    login_tokens,      \* the rows of the login_tokens table (LoginToken)
    conc               \* the request threads in flight and the objects they share

vars == <<clients, now, ticks, others, session, csrf, request_counts, captcha_sessions,
          trusted_browsers, cinfo, attempted, consumed, vlast, last_success, reclog, gate,
          note, draw, login_tokens, conc>>

histvars == <<cinfo, attempted, consumed, vlast, last_success, reclog, gate>>

M == Mgr(request_counts, captcha_sessions, trusted_browsers)

\* the instants at which requests arrive: a captcha timeout after the start,
\* a rate-limit window after the start, a trust duration after that, and so
\* on, so that every expiry boundary of the program is met exactly
TickStep(k) ==
    CASE k % 3 = 0 -> captcha_timeout
      [] k % 3 = 1 -> rate_limit_window - captcha_timeout
      [] OTHER     -> browser_trust_duration

\* the question drawn in the state machine (the whole range of
\* random.randint(1, 10) is covered by the generator's own specification)
QuestionSample == {<<3, 5, "-">>}

\* an answer no challenge has: the operands are at most 10
WrongAnswer == 999

Primary == "s1"

\* record_request calls made so far, over all sessions
Recorded ==
    LET n[S \in SUBSET Sessions] ==
            IF S = {} THEN 0
            ELSE LET x == CHOOSE y \in S : TRUE
                 IN  Len(reclog[x]) + n[S \ {x}]
    IN  n[Sessions]

InitState ==
    /\ now = 0
    /\ ticks = 0
    /\ others = 0
    /\ session = [s \in Sessions |-> NoFp]
    /\ csrf = [s \in Sessions |-> NoToken]
    /\ request_counts = EmptyDict
    /\ captcha_sessions = EmptyDict
    /\ trusted_browsers = EmptyDict
    /\ cinfo = <<>>
    /\ attempted = {}
    /\ consumed = {}
    /\ vlast = [cid |-> 0]
    /\ last_success = [f \in FPs |-> -1]
    /\ reclog = [s \in Sessions |-> <<>>]
    /\ gate = [s \in Sessions |-> "none"]
    /\ login_tokens = <<>>
    /\ note = "none"

(* ---- request threads (the development server handles each request in its own thread) ---- *)
Threads == 1..MaxThreads

\* every thread idle, the key not in request_counts, no list object allocated.
\* dict is request_counts[key] as a reference into heap (0: key absent); heap
\* holds the list objects ever created.
ConcIdle ==
    [dict |-> 0,
     heap |-> <<>>,
     th   |-> [t \in Threads |-> [op |-> "none", pc |-> "idle", ref |-> 0,
                                  copy |-> <<>>, seen |-> -1,
                                  kind |-> "none", ret |-> "none"]]]

\* one browser session, one request at a time
Init == clients = {Primary} /\ InitState /\ draw \in QuestionSample /\ conc = ConcIdle

\* before_request generate_browser_fingerprint: set once per session
BrowserFingerprint(s) ==
    IF session[s] = NoFp THEN Fingerprint(Headers(s)) ELSE session[s]

Key(s) == RateLimitKey(ClientIp(s), BrowserFingerprint(s))

SetMgr(m) ==
    /\ request_counts' = m.request_counts
    /\ captcha_sessions' = m.captcha_sessions
    /\ trusted_browsers' = m.trusted_browsers

\* the session's token once ensure_csrf_token has run
CsrfToken(s) == get_or_create_csrf_token(csrf[s], s)

\* every request: the budget of the other sessions, then the before_request
\* hooks generate_browser_fingerprint and ensure_csrf_token
Hook(s) ==
    /\ s # Primary => others < MaxOther
    /\ others' = IF s = Primary THEN others ELSE others + 1
    /\ session' = [session EXCEPT ![s] = BrowserFingerprint(s)]
    /\ csrf' = [csrf EXCEPT ![s] = CsrfToken(s)]

\* csrf_protect for a POST of the session's own browser, which sends the
\* token an earlier response gave it
PostPasses(s, endpoint) == csrf_protect("POST", endpoint, CsrfToken(s), csrf[s]) = "pass"

Count(rc, key) == IF key \in DOMAIN rc THEN Len(rc[key]) ELSE 0

\* history: the record_request calls of a session made less than a window ago
RecentRecords(s) ==
    Cardinality({i \in 1..Len(reclog[s]) : now - reclog[s][i] < rate_limit_window})

\* history: the session's fingerprint passed a verify less than a trust duration ago
TrustedByHistory(s) ==
    /\ last_success[BrowserFingerprint(s)] >= 0
    /\ now - last_success[BrowserFingerprint(s)] < browser_trust_duration

Gated == {"gated", "gated_json", "gated_html"}

Tick ==
    /\ ticks < MaxTicks
    /\ now' = now + TickStep(ticks)
    /\ ticks' = ticks + 1
    /\ gate' = [s \in Sessions |->
                   IF gate[s] \in {"passed", "readmitted"} THEN "none" ELSE gate[s]]
    /\ UNCHANGED draw
    /\ note' = "none"
    /\ UNCHANGED <<conc, login_tokens, clients, others, session, csrf, request_counts, captcha_sessions,
                   trusted_browsers, cinfo, attempted, consumed, vlast,
                   last_success, reclog>>

\* a request that asks the gate about an action
CanProceed(s, action) ==
    LET r == can_proceed(M, action, Key(s), BrowserFingerprint(s), now)
    IN  /\ Hook(s)
        /\ SetMgr(r.m)
        /\ gate' = IF action # ProtectedAction THEN gate
                   ELSE [gate EXCEPT ![s] =
                            IF ~r.allowed THEN "gated"
                            ELSE IF @ = "released"
                                    /\ RecentRecords(s) >= max_requests_per_window
                            THEN "readmitted" ELSE "passed"]
        /\ UNCHANGED draw
        /\ note' = IF action # ProtectedAction THEN "other_gate" ELSE "none"
        /\ UNCHANGED <<conc, login_tokens, clients, now, ticks, cinfo, attempted, consumed, vlast,
                       last_success, reclog>>

\* a request that records an action
RecordRequest(s, action) ==
    LET m == record_request_action(M, action, Key(s), now)
    IN  /\ action = ProtectedAction => Recorded < MaxReq
        /\ Hook(s)
        /\ SetMgr(m)
        /\ reclog' = IF action = ProtectedAction
                     THEN [reclog EXCEPT ![s] = Append(@, now)] ELSE reclog
        /\ gate' = IF action = ProtectedAction /\ gate[s] \notin Gated
                   THEN [gate EXCEPT ![s] = "none"] ELSE gate
        /\ UNCHANGED draw
        /\ note' = IF action # ProtectedAction THEN "other_record" ELSE "none"
        /\ UNCHANGED <<conc, login_tokens, clients, now, ticks, cinfo, attempted, consumed, vlast,
                       last_success>>

\* GET /api/security/status
GetStatus(s) ==
    \E r \in {security_status(M, Key(s), BrowserFingerprint(s), now, CsrfToken(s), s)} :
        /\ Hook(s)
        /\ SetMgr(r.m)
        /\ UNCHANGED draw
        /\ note' = "status"
        /\ UNCHANGED <<conc, login_tokens, clients, now, ticks, histvars>>

\* POST /api/security/captcha
IssueCaptcha(s, q) ==
    LET cid == Len(cinfo) + 1
        fp  == BrowserFingerprint(s)
        r   == create_captcha(captcha_sessions, cid, q[1], q[2], q[3], fp, now)
    IN  /\ Len(cinfo) < MaxCaptchas
        /\ q = draw
        /\ PostPasses(s, "generate_captcha")
        /\ Hook(s)
        /\ captcha_sessions' = r.cs
        /\ cinfo' = Append(cinfo, [at |-> now, fp |-> fp,
                                   answer |-> r.cs[cid].answer,
                                   question |-> r.ret[2]])
        /\ UNCHANGED draw
        /\ note' = "none"
        /\ UNCHANGED <<conc, login_tokens, clients, now, ticks, request_counts, trusted_browsers,
                       attempted, consumed, vlast, last_success, reclog, gate>>

\* the answers a client may submit for a challenge id
AnswerKinds == {"correct", "wrong", "text", "other"}

UserAnswer(cid, kind) ==
    CASE kind = "correct" -> [t |-> "int", v |-> cinfo[cid].answer]
      [] kind = "wrong"   -> [t |-> "int", v |-> WrongAnswer]
      [] kind = "text"    -> [t |-> "text"]
      [] OTHER            -> [t |-> "other"]

\* history: the challenge has been issued and its timeout has not run out
Unexpired(cid) == cid <= Len(cinfo) /\ now - cinfo[cid].at < captcha_timeout

\* POST /api/security/verify
VerifyCaptcha(s, cid, kind) ==
    LET fp == BrowserFingerprint(s)
        r  == verify_captcha(M, cid, UserAnswer(cid, kind), fp, now)
    IN  /\ kind = "correct" => cid <= Len(cinfo)
        /\ PostPasses(s, "verify_captcha")
        /\ Hook(s)
        /\ SetMgr(r.m)
        /\ attempted' = attempted \cup {cid}
        /\ consumed' = IF r.outcome = "Success" THEN consumed \cup {cid} ELSE consumed
        /\ vlast' = [cid |-> cid, s |-> s, answer |-> kind, outcome |-> r.outcome]
        /\ last_success' = IF r.outcome = "Success"
                           THEN [last_success EXCEPT ![fp] = now] ELSE last_success
        /\ gate' = IF r.outcome = "Success" /\ gate[s] \in Gated
                   THEN [gate EXCEPT ![s] = "released"] ELSE gate
        /\ UNCHANGED draw
        /\ note' = "none"
        /\ UNCHANGED <<conc, login_tokens, clients, now, ticks, cinfo, reclog>>

\* POST /identify
Identify(s, wants_json, upload) ==
    \E r \in {upload_file(M, Key(s), BrowserFingerprint(s), now, wants_json, upload)} :
    LET recorded == \E i \in 1..Len(r.calls) : r.calls[i] = "record_request"
    IN  /\ upload \in {"badimage", "ok"} => Recorded < MaxReq
        /\ PostPasses(s, "upload_file")
        /\ Hook(s)
        /\ SetMgr(r.m)
        /\ reclog' = IF recorded THEN [reclog EXCEPT ![s] = Append(@, now)] ELSE reclog
        /\ gate' = [gate EXCEPT ![s] =
                       IF r.http = 429 THEN "gated_json"
                       ELSE IF r.http = 302 THEN "gated_html"
                       ELSE IF recorded THEN "none" ELSE "passed"]
        /\ UNCHANGED draw
        /\ note' = IF r.allowed /\ ~recorded THEN "upload_rejected" ELSE "none"
        /\ UNCHANGED <<conc, login_tokens, clients, now, ticks, cinfo, attempted, consumed, vlast,
                       last_success>>

\* where the store can fail in POST /identify
Faults == {"gate", "record"}

\* POST /identify in which the store raises
IdentifyFault(s, wants_json, upload, fault) ==
    \E r \in {upload_file_fault(M, Key(s), BrowserFingerprint(s), now, wants_json,
                                upload, fault)} :
        /\ PostPasses(s, "upload_file")
        /\ Hook(s)
        /\ SetMgr(r.m)
        /\ gate' = IF fault = "gate" THEN gate
                   ELSE [gate EXCEPT ![s] =
                            IF r.http = 429 THEN "gated_json"
                            ELSE IF r.http = 302 THEN "gated_html"
                            ELSE "passed"]
        /\ UNCHANGED draw
        /\ note' = IF fault = "gate" THEN "fault_gate"
                   ELSE IF "record_request" \in {r.calls[i] : i \in 1..Len(r.calls)}
                   THEN "fault_record" ELSE "none"
        /\ UNCHANGED <<conc, login_tokens, clients, now, ticks, cinfo, attempted, consumed, vlast,
                       last_success, reclog>>

\* GET /: the page is rendered, the manager is not called (a page view does
\* not count against the budget of the other sessions)
GetPage(s) ==
    /\ session' = [session EXCEPT ![s] = BrowserFingerprint(s)]
    /\ csrf' = [csrf EXCEPT ![s] = CsrfToken(s)]
    /\ UNCHANGED others
    /\ UNCHANGED draw
    /\ note' = "none"
    /\ UNCHANGED <<conc, login_tokens, clients, now, ticks, request_counts, captcha_sessions,
                   trusted_browsers, histvars>>

\* the tokens a request can carry: none, a made-up one, or one some session
\* has been given
RequestTokens == {NoToken, ForgedToken} \cup {csrf[s] : s \in clients}

\* a POST with its token: csrf_protect answers it, or the handler runs.
\* handled is the response of the handler.
dispatch_post(m, endpoint, session_token, request_token, wants_json, handled) ==
    IF csrf_protect("POST", endpoint, session_token, request_token) = "reject"
    THEN [m |-> m, http |-> csrf_failure_response(endpoint, wants_json), ran |-> FALSE]
    ELSE [m |-> handled.m, http |-> handled.http, ran |-> TRUE]

\* what the handler of an endpoint would answer to the session now
Handled(s, endpoint, wants_json) ==
    LET fp == BrowserFingerprint(s)
    IN  CASE endpoint = "generate_captcha" ->
                 [m |-> [M EXCEPT !.captcha_sessions =
                            create_captcha(captcha_sessions, Len(cinfo) + 1, draw[1],
                                           draw[2], draw[3], fp, now).cs],
                  http |-> 200]
          [] endpoint = "verify_captcha" ->
                 LET v == verify_route(M, 1, [t |-> "int", v |-> WrongAnswer], fp, now)
                 IN  [m |-> v.m, http |-> v.http]
          [] OTHER ->
                 LET u == upload_file(M, Key(s), fp, now, wants_json, "ok")
                 IN  [m |-> u.m, http |-> u.http]

\* a POST to one of the security endpoints that csrf_protect turns away
CsrfRejected(s, endpoint, wants_json, token) ==
    LET r == dispatch_post(M, endpoint, CsrfToken(s), token, wants_json,
                           Handled(s, endpoint, wants_json))
    IN  /\ token \in RequestTokens
        /\ ~r.ran
        /\ Hook(s)
        /\ SetMgr(r.m)
        /\ UNCHANGED draw
        /\ note' = "csrf_rejected"
        /\ UNCHANGED <<conc, login_tokens, clients, now, ticks, histvars>>

Next ==
    \/ Tick
    \/ \E s \in clients, a \in Actions : CanProceed(s, a)
    \/ \E s \in clients, a \in Actions : RecordRequest(s, a)
    \/ \E s \in clients : GetStatus(s)
    \/ \E s \in clients, q \in QuestionSample : IssueCaptcha(s, q)
    \/ \E s \in clients, c \in 1..MaxCaptchas, k \in AnswerKinds : VerifyCaptcha(s, c, k)
    \/ \E s \in clients, j \in BOOLEAN, u \in Uploads : Identify(s, j, u)
    \/ \E s \in clients, j \in BOOLEAN, f \in Faults : IdentifyFault(s, j, "ok", f)
    \/ \E s \in clients : GetPage(s)
    \/ \E s \in clients, e \in PostEndpoints, tok \in {NoToken, ForgedToken} :
           CsrfRejected(s, e, FALSE, tok)

Spec == Init /\ [][Next]_vars

(* ---- two browser sessions ---- *)
\* the first session and one that shares its headers but not its address, or
\* its address but not its headers
ClientSets == {{"s1", "s2"}, {"s1", "s3"}}

InitShared ==
    clients \in ClientSets /\ InitState /\ draw \in QuestionSample /\ conc = ConcIdle

NextShared ==
    \/ Tick
    \/ \E s \in clients, a \in Actions : CanProceed(s, a)
    \/ \E s \in clients, a \in Actions : RecordRequest(s, a)
    \/ \E s \in clients : GetStatus(s)
    \/ \E s \in clients, q \in QuestionSample : IssueCaptcha(s, q)
    \/ \E s \in clients, c \in 1..MaxCaptchas, k \in AnswerKinds : VerifyCaptcha(s, c, k)
    \/ \E s \in clients : GetPage(s)

SpecShared == InitShared /\ [][NextShared]_vars

(* ---- concurrent requests of one identity ---- *)
(* The requests of one identity (one key of request_counts) run in threads    *)
(* that interleave between the dictionary and list operations of              *)
(* record_request, _cleanup_old_entries and check_rate_limit; no lock is      *)
(* taken.  All requests fall at the same instant, inside one window.          *)
seqvars == <<clients, now, ticks, others, session, csrf, request_counts, captcha_sessions,
             trusted_browsers, cinfo, attempted, consumed, vlast, last_success,
             reclog, gate, note, draw, login_tokens>>

ThreadOps == {"record", "check"}

At(t, pc) == conc.th[t].pc = pc

\* thread t moves to pc
Goto(c, t, pc) == [c EXCEPT !.th[t].pc = pc]

\* request_counts[key] = <a new list object holding lst>
StoreNew(c, lst) == [c EXCEPT !.heap = Append(@, lst), !.dict = Len(c.heap) + 1]

\* a request arrives and its handler begins record_request or check_rate_limit
Start(t, op) ==
    /\ At(t, "idle")
    /\ conc' = [conc EXCEPT !.th[t].op = op,
                            !.th[t].pc = IF op = "record" THEN "r_in" ELSE "k_keys"]
    /\ UNCHANGED seqvars

\* record_request: if key not in self.request_counts
Rec_In(t) ==
    /\ At(t, "r_in")
    /\ conc' = Goto(conc, t, IF conc.dict = 0 THEN "r_new" ELSE "r_get")
    /\ UNCHANGED seqvars

\* record_request: self.request_counts[key] = []
Rec_New(t) ==
    /\ At(t, "r_new")
    /\ conc' = Goto(StoreNew(conc, <<>>), t, "r_get")
    /\ UNCHANGED seqvars

\* record_request: evaluate self.request_counts[key] (KeyError if the key has gone)
Rec_Get(t) ==
    /\ At(t, "r_get")
    /\ conc' = IF conc.dict = 0
               THEN Goto(conc, t, "KeyError")
               ELSE [Goto(conc, t, "r_append") EXCEPT !.th[t].ref = conc.dict]
    /\ UNCHANGED seqvars

\* record_request: .append(current_time) on the list object obtained
Rec_Append(t) ==
    /\ At(t, "r_append")
    /\ conc' = [Goto(conc, t, "done") EXCEPT !.heap[conc.th[t].ref] = Append(@, now)]
    /\ UNCHANGED seqvars

\* _cleanup_old_entries: for key in list(self.request_counts.keys())
Cln_Keys(t) ==
    /\ At(t, "k_keys")
    /\ conc' = Goto(conc, t, IF conc.dict = 0 THEN "c_in" ELSE "k_filter")
    /\ UNCHANGED seqvars

\* _cleanup_old_entries: the list comprehension over self.request_counts[key]
Cln_Filter(t) ==
    /\ At(t, "k_filter")
    /\ conc' = IF conc.dict = 0
               THEN Goto(conc, t, "KeyError")
               ELSE [Goto(conc, t, "k_store") EXCEPT
                        !.th[t].copy = InWindow(conc.heap[conc.dict], now)]
    /\ UNCHANGED seqvars

\* _cleanup_old_entries: self.request_counts[key] = <the filtered list>
Cln_Store(t) ==
    /\ At(t, "k_store")
    /\ conc' = Goto(StoreNew(conc, conc.th[t].copy), t, "k_test")
    /\ UNCHANGED seqvars

\* _cleanup_old_entries: if not self.request_counts[key]
Cln_Test(t) ==
    /\ At(t, "k_test")
    /\ conc' = IF conc.dict = 0
               THEN Goto(conc, t, "KeyError")
               ELSE Goto(conc, t, IF conc.heap[conc.dict] = <<>> THEN "k_del" ELSE "c_in")
    /\ UNCHANGED seqvars

\* _cleanup_old_entries: del self.request_counts[key]
Cln_Del(t) ==
    /\ At(t, "k_del")
    /\ conc' = IF conc.dict = 0
               THEN Goto(conc, t, "KeyError")
               ELSE [Goto(conc, t, "c_in") EXCEPT !.dict = 0]
    /\ UNCHANGED seqvars

\* check_rate_limit: if key not in self.request_counts
Chk_In(t) ==
    /\ At(t, "c_in")
    /\ conc' = Goto(conc, t, IF conc.dict = 0 THEN "c_new" ELSE "c_filter")
    /\ UNCHANGED seqvars

\* check_rate_limit: self.request_counts[key] = []
Chk_New(t) ==
    /\ At(t, "c_new")
    /\ conc' = Goto(StoreNew(conc, <<>>), t, "c_filter")
    /\ UNCHANGED seqvars

\* check_rate_limit: the list comprehension over self.request_counts[key]
Chk_Filter(t) ==
    /\ At(t, "c_filter")
    /\ conc' = IF conc.dict = 0
               THEN Goto(conc, t, "KeyError")
               ELSE [Goto(conc, t, "c_store") EXCEPT
                        !.th[t].copy = InWindow(conc.heap[conc.dict], now)]
    /\ UNCHANGED seqvars

\* check_rate_limit: self.request_counts[key] = <the filtered list>
Chk_Store(t) ==
    /\ At(t, "c_store")
    /\ conc' = Goto(StoreNew(conc, conc.th[t].copy), t, "c_len")
    /\ UNCHANGED seqvars

\* check_rate_limit: request_count = len(self.request_counts[key])
Chk_Len(t) ==
    /\ At(t, "c_len")
    /\ conc' = IF conc.dict = 0
               THEN Goto(conc, t, "KeyError")
               ELSE [Goto(conc, t, "done") EXCEPT
                        !.th[t].seen = Len(conc.heap[conc.dict])]
    /\ UNCHANGED seqvars

ConcNext ==
    \/ \E t \in Threads, op \in ThreadOps : Start(t, op)
    \/ \E t \in Threads : Rec_In(t)
    \/ \E t \in Threads : Rec_New(t)
    \/ \E t \in Threads : Rec_Get(t)
    \/ \E t \in Threads : Rec_Append(t)
    \/ \E t \in Threads : Cln_Keys(t)
    \/ \E t \in Threads : Cln_Filter(t)
    \/ \E t \in Threads : Cln_Store(t)
    \/ \E t \in Threads : Cln_Test(t)
    \/ \E t \in Threads : Cln_Del(t)
    \/ \E t \in Threads : Chk_In(t)
    \/ \E t \in Threads : Chk_New(t)
    \/ \E t \in Threads : Chk_Filter(t)
    \/ \E t \in Threads : Chk_Store(t)
    \/ \E t \in Threads : Chk_Len(t)

SpecConc == Init /\ [][ConcNext]_vars

\* the record_request calls that have returned
Completed ==
    Cardinality({t \in Threads : conc.th[t].op = "record" /\ conc.th[t].pc = "done"})

\* no request is in flight
Quiet == \A t \in Threads : conc.th[t].pc \in {"idle", "done", "KeyError"}

\* the request_count a can_proceed / get_status made now would see
ConcCount == IF conc.dict = 0 THEN 0 ELSE Len(InWindow(conc.heap[conc.dict], now))

(* ---- concurrent verify requests of one browser ---- *)
(* The browser obtains challenges and submits answers in requests that run in *)
(* threads interleaving between the dictionary operations of verify_captcha.  *)
(* A thread keeps the challenge id in ref and captcha_data in copy.           *)
verifyframe == <<clients, now, ticks, others, session, csrf, request_counts, cinfo,
                 attempted, consumed, vlast, last_success, reclog, gate, note, draw, login_tokens>>

\* POST /api/security/verify arrives: verify_captcha(captcha_id, user_answer) begins
Ver_Start(t, cid, kind) ==
    /\ At(t, "idle")
    /\ cid \in 1..Len(cinfo)
    /\ conc' = [conc EXCEPT !.th[t].op = "verify", !.th[t].pc = "v_in",
                            !.th[t].ref = cid, !.th[t].kind = kind]
    /\ UNCHANGED <<verifyframe, captcha_sessions, trusted_browsers>>

\* verify_captcha: if captcha_id not in self.captcha_sessions: return False
Ver_In(t) ==
    /\ At(t, "v_in")
    /\ conc' = IF conc.th[t].ref \in DOMAIN captcha_sessions
               THEN Goto(conc, t, "v_get")
               ELSE [Goto(conc, t, "done") EXCEPT !.th[t].ret = "InvalidChallenge"]
    /\ UNCHANGED <<verifyframe, captcha_sessions, trusted_browsers>>

\* verify_captcha: captcha_data = self.captcha_sessions[captcha_id]
Ver_Get(t) ==
    /\ At(t, "v_get")
    /\ conc' = IF conc.th[t].ref \in DOMAIN captcha_sessions
               THEN [Goto(conc, t, "v_decide") EXCEPT
                        !.th[t].copy = captcha_sessions[conc.th[t].ref]]
               ELSE Goto(conc, t, "KeyError")
    /\ UNCHANGED <<verifyframe, captcha_sessions, trusted_browsers>>

\* verify_captcha: the timeout, fingerprint and answer tests on captcha_data
Ver_Decide(t) ==
    LET d == conc.th[t].copy
        p == ParseInt(UserAnswer(conc.th[t].ref, conc.th[t].kind))
        o == IF captcha_expired(d, now) THEN "Expired"
             ELSE IF d.browser_fp # BrowserFingerprint(Primary) THEN "FingerprintMismatch"
             ELSE IF ~p.ok THEN (IF p.err = "ValueError" THEN "MalformedAnswer"
                                                         ELSE "TypeError")
             ELSE IF d.answer = p.v THEN "Success"
             ELSE "IncorrectAnswer"
    IN  /\ At(t, "v_decide")
        /\ conc' = [Goto(conc, t, CASE o = "TypeError" -> "TypeError"
                                    [] o = "Success"   -> "v_trust"
                                    [] OTHER           -> "v_del")
                       EXCEPT !.th[t].ret = o]
        /\ UNCHANGED <<verifyframe, captcha_sessions, trusted_browsers>>

\* verify_captcha: self.trust_browser()
Ver_Trust(t) ==
    /\ At(t, "v_trust")
    /\ trusted_browsers' = trust_browser(trusted_browsers, BrowserFingerprint(Primary), now)
    /\ conc' = Goto(conc, t, "v_del")
    /\ UNCHANGED <<verifyframe, captcha_sessions>>

\* verify_captcha: del self.captcha_sessions[captcha_id], then return
Ver_Del(t) ==
    /\ At(t, "v_del")
    /\ IF conc.th[t].ref \in DOMAIN captcha_sessions
       THEN /\ captcha_sessions' = DictDel(captcha_sessions, conc.th[t].ref)
            /\ conc' = Goto(conc, t, "done")
       ELSE /\ captcha_sessions' = captcha_sessions
            /\ conc' = Goto(conc, t, "KeyError")
    /\ UNCHANGED <<verifyframe, trusted_browsers>>

VerifyNext ==
    \/ GetPage(Primary)
    \/ \E q \in QuestionSample : IssueCaptcha(Primary, q)
    \/ \E t \in Threads, c \in 1..MaxCaptchas, k \in AnswerKinds : Ver_Start(t, c, k)
    \/ \E t \in Threads : Ver_In(t)
    \/ \E t \in Threads : Ver_Get(t)
    \/ \E t \in Threads : Ver_Decide(t)
    \/ \E t \in Threads : Ver_Trust(t)
    \/ \E t \in Threads : Ver_Del(t)

SpecVerify == Init /\ [][VerifyNext]_vars

\* the verify calls made with the correct answer for challenge cid
CorrectCalls(cid) ==
    {t \in Threads : /\ conc.th[t].op = "verify"
                     /\ conc.th[t].ref = cid
                     /\ conc.th[t].kind = "correct"}

\* every verify call has returned or raised
VerifyQuiet == \A t \in Threads : conc.th[t].pc \in {"idle", "done", "KeyError", "TypeError"}

(* ---- the calls a client could make in the current state ---- *)
\* the gate's answer if session s asked about the protected action now
Gate(s) == can_proceed(M, ProtectedAction, Key(s), BrowserFingerprint(s), now)

\* the result if session s submitted an answer for challenge cid to manager m now
VerifyBy(m, s, cid, kind) ==
    verify_captcha(m, cid, UserAnswer(cid, kind), BrowserFingerprint(s), now)

Issued == 1..Len(cinfo)

\* an issued challenge that is stored, unexpired and has never been answered
FreshLive(cid) == cid \in DOMAIN captcha_sessions /\ cid \notin attempted /\ Unexpired(cid)

\* session s is the browser the challenge was issued to
Owner(s, cid) == BrowserFingerprint(s) = cinfo[cid].fp

(* ---- claims ---- *)

\* C1: for an untrusted identity with exactly max_requests_per_window (= 2)
\* record_request("identify") calls inside the current window, the next
\* can_proceed("identify") returns (false, "captcha_required").
C1_ThresholdTrigger ==
    \A s \in clients :
        (~TrustedByHistory(s) /\ RecentRecords(s) = max_requests_per_window)
        => (~Gate(s).allowed /\ Gate(s).reason = "captcha_required")

\* the gate has refused a session that is untrusted and has exactly 2 recent records
C1_Witness ==
    \E s \in clients :
        /\ gate[s] = "gated"
        /\ ~TrustedByHistory(s)
        /\ RecentRecords(s) = max_requests_per_window

\* C2: an identity that was refused with captcha_required and has since passed
\* a verify with the correct answer is admitted by the next
\* can_proceed("identify") with (true, null), also while its recorded requests
\* are still inside the window.
C2_GateRelease ==
    \A s \in clients :
        gate[s] = "released" => (Gate(s).allowed /\ Gate(s).reason = Null)

\* a released session has asked the gate again with its records still in the
\* window, and the gate's answer stays the same
C2_Witness ==
    \E s \in clients :
        /\ gate[s] = "readmitted"
        /\ RecentRecords(s) >= max_requests_per_window
        /\ Gate(s).allowed

\* C3 as stated: once a verify has succeeded for an identity, every later
\* can_proceed("identify") returns (true, null), after any number of
\* record_request calls and any passage of time.
C3_TrustSticky ==
    \A s \in clients :
        last_success[BrowserFingerprint(s)] >= 0
        => (Gate(s).allowed /\ Gate(s).reason = Null)

\* C3 amended: every can_proceed("identify") made less than
\* browser_trust_duration (30 days) after the identity's latest successful
\* verify returns (true, null), whatever has been recorded since; from 30 days
\* on the trust has lapsed and the rate limit applies again.
C3_TrustWithinDuration ==
    \A s \in clients :
        TrustedByHistory(s) => (Gate(s).allowed /\ Gate(s).reason = Null)

\* a trusted session was admitted after time had passed and with a full
\* window of requests recorded after its verify
C3_Witness ==
    \E s \in clients :
        /\ gate[s] = "passed"
        /\ TrustedByHistory(s)
        /\ now > last_success[BrowserFingerprint(s)]
        /\ Cardinality({i \in 1..Len(reclog[s]) :
                           /\ reclog[s][i] > last_success[BrowserFingerprint(s)]
                           /\ now - reclog[s][i] < rate_limit_window})
               >= max_requests_per_window

\* C4: after a verify on a challenge has returned Success, every later verify
\* on the same challenge id, with any answer and from any client, returns
\* InvalidChallenge: it is no longer stored and cannot succeed again.
C4_SingleUse ==
    \A cid \in consumed : \A s \in clients, k \in AnswerKinds :
        /\ cid \notin DOMAIN captcha_sessions
        /\ VerifyBy(M, s, cid, k).outcome = "InvalidChallenge"
        /\ VerifyBy(M, s, cid, k).ret = FALSE

\* a consumed challenge was submitted again, with the correct answer
C4_Witness ==
    /\ vlast.cid \in consumed
    /\ vlast.answer = "correct"
    /\ vlast.outcome = "InvalidChallenge"

\* C5: three consecutive wrong answers to the same live challenge yield
\* IncorrectAnswer, IncorrectAnswer, TooManyAttempts in that order, and a
\* fourth verify on it yields InvalidChallenge.
C5_AttemptExhaustion ==
    \A cid \in Issued : \A s \in clients :
        (FreshLive(cid) /\ Owner(s, cid))
        => LET v1 == VerifyBy(M, s, cid, "wrong")
               v2 == VerifyBy(v1.m, s, cid, "wrong")
               v3 == VerifyBy(v2.m, s, cid, "wrong")
               v4 == VerifyBy(v3.m, s, cid, "correct")
           IN  <<v1.outcome, v2.outcome, v3.outcome, v4.outcome>>
                   = <<"IncorrectAnswer", "IncorrectAnswer",
                       "TooManyAttempts", "InvalidChallenge">>

\* C6: after a wrong answer to a freshly issued, unexpired challenge has been
\* refused, a verify on the same challenge id with the correct answer returns
\* Success and the identity's status reports is_trusted = true.
C6_WrongAnswerKeepsChallenge ==
    \A cid \in Issued : \A s \in clients :
        (FreshLive(cid) /\ Owner(s, cid))
        => LET v1 == VerifyBy(M, s, cid, "wrong")
               v2 == VerifyBy(v1.m, s, cid, "correct")
               st == get_security_status(v2.m, Key(s), BrowserFingerprint(s), now)
           IN  /\ v1.ret = FALSE
               /\ v2.outcome = "Success"
               /\ st.ret.is_trusted

\* C7 as stated: a verify on a challenge whose expires_at (issue time plus
\* captcha_timeout) has passed returns Expired, also with the correct answer
\* (taken for a challenge no answer has been submitted for before).
C7_ExpiredAlways ==
    \A cid \in Issued : \A s \in clients, k \in AnswerKinds :
        (cid \notin attempted /\ now > cinfo[cid].at + captcha_timeout)
        => VerifyBy(M, s, cid, k).outcome = "Expired"

\* C7 amended: a verify on a challenge whose expires_at has passed never
\* returns Success and never makes the identity trusted, whatever the answer;
\* it returns Expired while the challenge is still stored and InvalidChallenge
\* once the cleanup run by the rate-limit check has removed it.
C7_ExpiredNeverSucceeds ==
    \A cid \in Issued : \A s \in clients, k \in AnswerKinds :
        now > cinfo[cid].at + captcha_timeout
        => LET v == VerifyBy(M, s, cid, k)
           IN  /\ v.ret = FALSE
               /\ v.outcome = IF cid \in DOMAIN captcha_sessions
                              THEN "Expired" ELSE "InvalidChallenge"
               /\ v.m.trusted_browsers = trusted_browsers
               /\ cid \notin DOMAIN v.m.captcha_sessions

\* the correct answer was submitted for an expired challenge and refused as
\* Expired, and the browser is not trusted
C7_Witness ==
    /\ vlast.cid \in Issued
    /\ vlast.answer = "correct"
    /\ vlast.outcome = "Expired"
    /\ now > cinfo[vlast.cid].at + captcha_timeout
    /\ trusted_browsers = EmptyDict

\* the start of the identity's window: its oldest request still counted
WindowStartedAt(s) == request_counts[Key(s)][1]

\* C8 as stated: for an untrusted identity whose counted requests were all
\* made in the window that began at window_started_at, if
\* now - window_started_at >= rate_limit_window, the next can_proceed observes
\* request_count = 0 and rate_limited = false and admits the request.
C8_WindowReset ==
    \A s \in clients :
        (/\ ~TrustedByHistory(s)
         /\ Count(request_counts, Key(s)) > 0
         /\ \A i \in 1..Count(request_counts, Key(s)) :
                request_counts[Key(s)][i] - WindowStartedAt(s) < rate_limit_window
         /\ now - WindowStartedAt(s) >= rate_limit_window)
        => LET g == Gate(s)
           IN  /\ Count(g.m.request_counts, Key(s)) = 0
               /\ g.allowed
               /\ g.reason = Null

\* C8 amended: for an untrusted identity, if its most recent recorded request
\* is at least rate_limit_window old, the next can_proceed observes
\* request_count = 0 and rate_limited = false and admits the request; requests
\* recorded less than rate_limit_window ago stay counted (the window slides).
C8_WindowSlides ==
    \A s \in clients :
        (/\ ~TrustedByHistory(s)
         /\ reclog[s] # <<>>
         /\ now - reclog[s][Len(reclog[s])] >= rate_limit_window)
        => LET g == Gate(s)
           IN  /\ Count(g.m.request_counts, Key(s)) = 0
               /\ g.allowed
               /\ g.reason = Null

\* an untrusted session whose requests are all a window old was admitted, and
\* its list of requests is empty
C8_Witness ==
    \E s \in clients :
        /\ gate[s] = "passed"
        /\ ~TrustedByHistory(s)
        /\ reclog[s] # <<>>
        /\ now - reclog[s][Len(reclog[s])] >= rate_limit_window
        /\ Key(s) \in DOMAIN request_counts
        /\ request_counts[Key(s)] = <<>>

\* C9: POST /identify asks can_proceed("identify") first; when the gate
\* refuses, a JSON client gets 429 with code captcha_required, an HTML client
\* gets a redirect with the verification-required message flashed, and in
\* that request neither record_request nor the classifier is called: the
\* manager is left as the gate (and the status read) left it.
C9_GateEnforced ==
    \A s \in clients : \A j \in BOOLEAN, u \in Uploads :
        LET r == upload_file(M, Key(s), BrowserFingerprint(s), now, j, u)
            g == Gate(s)
        IN  /\ r.calls[1] = "can_proceed"
            /\ ~g.allowed =>
                  /\ ~r.allowed
                  /\ j => (r.http = 429 /\ r.code = "captcha_required")
                  /\ ~j => (r.http = 302 /\ r.flash = CaptchaMessage)
                  /\ \A i \in 1..Len(r.calls) :
                         r.calls[i] \notin {"record_request", "classify"}
                  /\ r.m = g.m

\* POST /identify was refused with 429, and no request was recorded by it:
\* the list holds the two that were recorded before
C9_Witness ==
    \E s \in clients :
        /\ gate[s] = "gated_json"
        /\ Len(reclog[s]) = max_requests_per_window
        /\ Count(request_counts, Key(s)) = max_requests_per_window

\* C10: under any interleaving of concurrent requests of one identity no
\* recorded request is lost and no request fails: once the requests in flight
\* have ended, the request_count seen is the number n of record_request calls
\* that completed in the window, also when the window pruning of
\* can_proceed ran concurrently with record_request.
C10_AtomicCounting ==
    Quiet => /\ ConcCount = Completed
             /\ \A t \in Threads : conc.th[t].pc # "KeyError"

\* C11: when exactly two verify calls are made on the same challenge, both
\* with the correct answer and under any interleaving, one returns Success
\* and the other InvalidChallenge; neither ends in an unhandled error.
C11_AtomicVerify ==
    \A cid \in Issued :
        (/\ VerifyQuiet
         /\ Cardinality(CorrectCalls(cid)) = 2
         /\ \A t \in Threads : conc.th[t].ref = cid => t \in CorrectCalls(cid))
        => /\ \A t \in CorrectCalls(cid) : conc.th[t].pc = "done"
           /\ \E t, u \in CorrectCalls(cid) :
                  /\ conc.th[t].ret = "Success"
                  /\ conc.th[u].ret = "InvalidChallenge"

\* the status and code POST /api/security/verify is to answer an outcome with
ExpectedVerifyResponse(outcome) ==
    CASE outcome = "Success"          -> [http |-> 200, success |-> "true"]
      [] outcome = "InvalidChallenge" -> [http |-> 400, code |-> "invalid_captcha"]
      [] outcome = "Expired"          -> [http |-> 400, code |-> "expired_captcha"]
      [] outcome = "IncorrectAnswer"  -> [http |-> 400, code |-> "incorrect_answer"]
      [] OTHER                        -> [http |-> 429, code |-> "too_many_attempts"]

\* C12: POST /api/security/verify answers Success with 200 and success:true,
\* and InvalidChallenge, Expired and IncorrectAnswer with 400, success:false
\* and the codes invalid_captcha, expired_captcha and incorrect_answer.
C12_VerifyStatusMapping ==
    \A cid \in Issued : \A s \in clients, k \in {"correct", "wrong"} :
        LET v == VerifyBy(M, s, cid, k)
            r == verify_route(M, cid, UserAnswer(cid, k), BrowserFingerprint(s), now)
            e == ExpectedVerifyResponse(v.outcome)
        IN  v.outcome \in {"Success", "InvalidChallenge", "Expired", "IncorrectAnswer"}
            => /\ r.http = e.http
               /\ v.outcome = "Success" => r.success = "true"
               /\ v.outcome # "Success" => (r.success = "false" /\ r.code = e.code)

\* C13: in every reachable state, the status of every identity has
\* is_trusted = true only with rate_limited = false.
C13_TrustedNeverRateLimited ==
    \A s \in clients :
        LET st == get_security_status(M, Key(s), BrowserFingerprint(s), now).ret
        IN  st.is_trusted => ~st.rate_limited

\* C14: an untrusted identity that has been issued a challenge and has not
\* passed a verify since is refused by every can_proceed("identify") with
\* captcha_required, also with fewer than max_requests_per_window requests
\* recorded.
C14_IssueGates ==
    \A s \in clients :
        (/\ ~TrustedByHistory(s)
         /\ \E cid \in Issued : /\ cinfo[cid].fp = BrowserFingerprint(s)
                                /\ last_success[BrowserFingerprint(s)] < cinfo[cid].at
                                /\ cid \notin consumed)
        => (~Gate(s).allowed /\ Gate(s).reason = "captcha_required")

\* the status a session would be given now by manager m
StatusOf(m, s) == get_security_status(m, Key(s), BrowserFingerprint(s), now).ret

\* C15: for a trusted identity record_request("identify") leaves request_count
\* and rate_limited as they were.
C15_RecordNoEffectWhenTrusted ==
    \A s \in clients :
        is_browser_trusted(trusted_browsers, BrowserFingerprint(s), now)
        => LET after == [M EXCEPT !.request_counts =
                            record_request(request_counts, Key(s), now)]
           IN  /\ StatusOf(after, s).request_count = StatusOf(M, s).request_count
               /\ StatusOf(after, s).rate_limited = StatusOf(M, s).rate_limited

\* the request times of a key that are less than a window old
LiveTimes(rc, k) ==
    IF k \in DOMAIN rc
    THEN SelectSeq(rc[k], LAMBDA r : now - r < rate_limit_window)
    ELSE <<>>

\* C16 as stated: a status read leaves the trust entries, the challenge store
\* and the request lists of every other identity unchanged, and a second
\* read at the same time returns the same status.
C16_StatusNoSideEffect ==
    \A s \in clients :
        LET g == get_security_status(M, Key(s), BrowserFingerprint(s), now)
        IN  /\ g.m.trusted_browsers = trusted_browsers
            /\ g.m.captcha_sessions = captcha_sessions
            /\ \A k \in (DOMAIN request_counts \cup DOMAIN g.m.request_counts) \ {Key(s)} :
                   /\ k \in DOMAIN request_counts
                   /\ k \in DOMAIN g.m.request_counts
                   /\ g.m.request_counts[k] = request_counts[k]
            /\ StatusOf(g.m, s) = g.ret

\* C16 amended: a status read removes only what is stale - request times a
\* window old or older (of any identity), expired challenges, lapsed trust
\* entries - and creates the caller's empty request list.  Every identity's
\* is_trusted and its request times inside the window, and every unexpired
\* challenge, are left as they were, and a second read at the same time
\* returns the same status and changes nothing.
C16_StatusOnlyCleans ==
    \A s \in clients :
        LET g == get_security_status(M, Key(s), BrowserFingerprint(s), now)
            h == get_security_status(g.m, Key(s), BrowserFingerprint(s), now)
        IN  /\ \A f \in FPs : is_browser_trusted(g.m.trusted_browsers, f, now)
                              = is_browser_trusted(trusted_browsers, f, now)
            /\ \A f \in DOMAIN g.m.trusted_browsers :
                   f \in DOMAIN trusted_browsers /\ g.m.trusted_browsers[f] = trusted_browsers[f]
            /\ \A c \in DOMAIN g.m.captcha_sessions :
                   c \in DOMAIN captcha_sessions /\ g.m.captcha_sessions[c] = captcha_sessions[c]
            /\ \A c \in DOMAIN captcha_sessions :
                   c \in DOMAIN g.m.captcha_sessions
                   \/ now - captcha_sessions[c].timestamp > captcha_timeout
            /\ \A k \in DOMAIN request_counts \cup DOMAIN g.m.request_counts :
                   LiveTimes(g.m.request_counts, k) = LiveTimes(request_counts, k)
            /\ h.ret = g.ret
            /\ h.m = g.m

\* a status was read after another identity had recorded a request and a
\* challenge had expired unanswered; the challenge is gone from the store
C16_Witness ==
    /\ note = "status"
    /\ \E s \in clients : s # Primary /\ reclog[s] # <<>>
    /\ \E c \in Issued : /\ c \notin attempted
                         /\ now - cinfo[c].at > captcha_timeout
                         /\ c \notin DOMAIN captcha_sessions

\* no challenge in the store is past its timeout
NoStale(cs) == \A c \in DOMAIN cs : ~(now - cs[c].timestamp > captcha_timeout)

\* C17 as stated: right after any issue and any verify call the challenge
\* store holds no expired challenge (taken for a verify of an unknown id and
\* for the issue of the next challenge).
C17_PurgeOnIssueAndVerify ==
    \A s \in clients :
        /\ NoStale(VerifyBy(M, s, 0, "wrong").m.captcha_sessions)
        /\ \A q \in QuestionSample :
               NoStale(generate_captcha(captcha_sessions, Len(cinfo) + 1, q[1], q[2], q[3],
                                        BrowserFingerprint(s), now).cs)

\* C17 amended: the stale entries are scanned and deleted by every rate-limit
\* check (each can_proceed that reaches the rate limit and each status read),
\* so right after such a call the challenge store holds no expired
\* challenge; issue and verify do not scan (a verify deletes only the
\* challenge it was given).
C17_PurgeOnRateLimitCheck ==
    \A s \in clients :
        /\ NoStale(check_rate_limit(M, Key(s), now).m.captcha_sessions)
        /\ NoStale(get_security_status(M, Key(s), BrowserFingerprint(s), now).m.captcha_sessions)

\* the gate was asked after a challenge had expired unanswered, and the
\* challenge is gone from the store
C17_Witness ==
    \E s \in clients :
        /\ gate[s] \in {"passed", "gated"}
        /\ note = "none"
        /\ \E c \in Issued : /\ c \notin attempted
                             /\ now - cinfo[c].at > captcha_timeout
                             /\ c \notin DOMAIN captcha_sessions

\* C18: if the store fails in POST /identify while the gate is evaluated (or
\* when the request is recorded), the classifier is not called and nothing is
\* recorded; a failure in the gate is answered with an error and leaves the
\* manager as it was.
C18_FailClosed ==
    \A s \in clients : \A j \in BOOLEAN, u \in Uploads, f \in Faults :
        LET r == upload_file_fault(M, Key(s), BrowserFingerprint(s), now, j, u, f)
        IN  /\ \A i \in 1..Len(r.calls) : r.calls[i] # "classify"
            /\ Count(r.m.request_counts, Key(s)) <= Count(request_counts, Key(s))
            /\ f = "gate" => (~r.allowed /\ r.http = 500 /\ r.m = M)

\* POST /identify failed in the gate for a session that would have been admitted
C18_Witness ==
    /\ note = "fault_gate"
    /\ Gate(Primary).allowed

Draws == (MinOperand..MaxOperand) \X (MinOperand..MaxOperand) \X Operators

InitGen == clients = {Primary} /\ InitState /\ draw \in Draws /\ conc = ConcIdle

NextGen ==
    \/ \E s \in clients : GetPage(s)
    \/ \E s \in clients : IssueCaptcha(s, draw)

SpecGen == InitGen /\ [][NextGen]_vars

\* int(text) for a text of decimal digits
RECURSIVE IntOfText(_)
IntOfText(txt) ==
    IF txt = <<>> THEN 0
    ELSE LET d == CHOOSE v \in 0..9 : DigitChars[v + 1] = txt[Len(txt)]
         IN  10 * IntOfText(SubSeq(txt, 1, Len(txt) - 1)) + d

\* the places where " sign " starts in a text
SignAt(txt, sign) ==
    {i \in 1..(Len(txt) - 2) : txt[i] = " " /\ txt[i + 1] = sign /\ txt[i + 2] = " "}

\* whether int() accepts the text: one digit at least, digits only
IsNumber(txt) ==
    /\ txt # <<>>
    /\ \A i \in 1..Len(txt) : \E v \in 0..9 : DigitChars[v + 1] = txt[i]

\* solve_captcha of the tests: the value a client reads from the question
\* text, splitting it at " + ", " - " or " × " and converting both sides
solve_captcha(question) ==
    LET sign == IF SignAt(question, "+") # {} THEN "+"
                ELSE IF SignAt(question, "-") # {} THEN "-"
                ELSE IF SignAt(question, "×") # {} THEN "×"
                ELSE "none"
        i == IF sign = "none" THEN 0 ELSE CHOOSE j \in SignAt(question, sign) : TRUE
        a == SubSeq(question, 1, i - 1)
        b == SubSeq(question, i + 3, Len(question))
    IN  IF sign = "none" \/ Cardinality(SignAt(question, sign)) # 1
           \/ ~IsNumber(a) \/ ~IsNumber(b)
        THEN [ok |-> FALSE, a |-> 0, b |-> 0, v |-> 0]
        ELSE [ok |-> TRUE, a |-> IntOfText(a), b |-> IntOfText(b),
              v |-> CASE sign = "+" -> IntOfText(a) + IntOfText(b)
                      [] sign = "-" -> IntOfText(a) - IntOfText(b)
                      [] OTHER      -> IntOfText(a) * IntOfText(b)]

\* C20: for every pair of operands in 1..10 and every operator, the stored
\* answer of the issued challenge equals the value of the question text shown
\* to the client and is >= 0; for subtraction the first operand shown is >=
\* the second, and the operands shown are the ones drawn, in either order.
C20_NoNegativeAnswers ==
    \A c \in Issued :
        c \in DOMAIN captcha_sessions
        => LET v == solve_captcha(cinfo[c].question)
           IN  /\ v.ok
               /\ captcha_sessions[c].answer = v.v
               /\ captcha_sessions[c].answer >= 0
               /\ draw[3] = "-" => v.a >= v.b
               /\ {v.a, v.b} = {draw[1], draw[2]}

\* a subtraction whose first operand drawn is the smaller one has been issued
C20_Witness ==
    /\ draw[3] = "-"
    /\ draw[1] < draw[2]
    /\ \E c \in Issued : c \in DOMAIN captcha_sessions /\ SignAt(cinfo[c].question, "-") # {}

\* the response GET /api/security/status would give the session now
StatusResponse(s) ==
    security_status(M, Key(s), BrowserFingerprint(s), now, CsrfToken(s), s)

StatusFields ==
    {"is_trusted", "request_count", "rate_limited", "rate_limit_threshold",
     "window_expires_in", "captcha_enabled", "csrf_token"}

MagicLinkTtl == 900
MaxTokens == 1

Email == "user@example.org"

\* secrets.token_urlsafe(32) of the n-th link
MagicToken(n) == <<"token", n>>

\* _hash_token
HashToken(tok) == <<"sha256", tok>>

\* what a client presents at /auth/verify: the token of the link, the hash
\* stored for it, or a string that was never issued
TokenKinds == {"token", "hash", "bogus"}

Presented(kind) ==
    CASE kind = "token" -> MagicToken(1)
      [] kind = "hash"  -> HashToken(MagicToken(1))
      [] OTHER          -> <<"bogus", 0>>

\* LoginToken.query.filter_by(token=value).first(): the row's index, 0 if none
FindToken(rows, value) ==
    IF \E i \in 1..Len(rows) : rows[i].token = value
    THEN CHOOSE i \in 1..Len(rows) : rows[i].token = value
    ELSE 0

\* LoginToken.is_valid
is_valid(row, t) == ~row.used /\ t < row.expires_at

magicframe == <<clients, others, session, csrf, request_counts, captcha_sessions,
                trusted_browsers, cinfo, attempted, consumed, vlast, last_success,
                reclog, gate, note, draw>>

\* the clock moves on by half the lifetime of a link
MagicTick ==
    /\ ticks < MaxTicks
    /\ ticks' = ticks + 1
    /\ now' = now + MagicLinkTtl \div 2
    /\ UNCHANGED <<magicframe, login_tokens, conc>>

\* generate_magic_link_token
Mag_Generate ==
    /\ Len(login_tokens) < MaxTokens
    /\ login_tokens' = Append(login_tokens,
                              [email |-> Email,
                               token |-> HashToken(MagicToken(Len(login_tokens) + 1)),
                               expires_at |-> now + MagicLinkTtl,
                               used |-> FALSE,
                               used_at |-> -1])
    /\ UNCHANGED <<magicframe, now, ticks, conc>>

\* GET /auth/verify arrives: verify_magic_link_token(token) begins
Mag_Start(t, kind) ==
    /\ At(t, "idle")
    /\ conc.th[t].op = "none"
    /\ login_tokens # <<>>
    /\ conc' = [conc EXCEPT !.th[t].op = "magic", !.th[t].pc = "m_query",
                            !.th[t].kind = kind, !.th[t].seen = now]
    /\ UNCHANGED <<magicframe, now, ticks, login_tokens>>

\* the two queries; a row found by its plaintext is rewritten with the hash
\* and committed.  The thread keeps the row it loaded in copy.
Mag_Query(t) ==
    LET p  == Presented(conc.th[t].kind)
        i  == FindToken(login_tokens, HashToken(p))
        j  == FindToken(login_tokens, p)
        up == [login_tokens EXCEPT ![j].token = HashToken(p)]
    IN  /\ At(t, "m_query")
        /\ IF i # 0
           THEN /\ conc' = [conc EXCEPT !.th[t].ref = i, !.th[t].copy = login_tokens[i],
                                        !.th[t].pc = "m_valid"]
                /\ UNCHANGED login_tokens
           ELSE IF j # 0
           THEN /\ login_tokens' = up
                /\ conc' = [conc EXCEPT !.th[t].ref = j, !.th[t].copy = up[j],
                                        !.th[t].pc = "m_valid"]
           ELSE /\ conc' = [conc EXCEPT !.th[t].ret = "None", !.th[t].pc = "done"]
                /\ UNCHANGED login_tokens
        /\ UNCHANGED <<magicframe, now, ticks>>

\* if not login_token.is_valid(): return None
Mag_Valid(t) ==
    /\ At(t, "m_valid")
    /\ conc' = IF is_valid(conc.th[t].copy, now)
               THEN Goto(conc, t, "m_commit")
               ELSE [conc EXCEPT !.th[t].ret = "None", !.th[t].pc = "done"]
    /\ UNCHANGED <<magicframe, now, ticks, login_tokens>>

\* login_token.used = True; used_at = now; commit; return login_token.email
Mag_Commit(t) ==
    LET i == conc.th[t].ref
    IN  /\ At(t, "m_commit")
        /\ login_tokens' = [login_tokens EXCEPT ![i].used = TRUE, ![i].used_at = now]
        /\ conc' = [conc EXCEPT !.th[t].ret = conc.th[t].copy.email, !.th[t].pc = "done"]
        /\ UNCHANGED <<magicframe, now, ticks>>

MagicNext ==
    \/ MagicTick
    \/ Mag_Generate
    \/ \E t \in Threads, k \in TokenKinds : Mag_Start(t, k)
    \/ \E t \in Threads : Mag_Query(t)
    \/ \E t \in Threads : Mag_Valid(t)
    \/ \E t \in Threads : Mag_Commit(t)

SpecMagic == Init /\ [][MagicNext]_vars

\* the verify calls that returned the email
Accepted == {t \in Threads : conc.th[t].op = "magic" /\ conc.th[t].ret = Email}

\* C22: over any sequence of verify_magic_link_token calls for one link,
\* concurrent ones included, the email is returned at most once, and never to
\* a call made at or after expires_at.
C22_MagicLinkOnce ==
    /\ Cardinality(Accepted) <= 1
    /\ \A t \in Accepted : conc.th[t].seen < login_tokens[conc.th[t].ref].expires_at

\* the place of a call in the list of calls a request made, 0 if it was not made
CallAt(calls, name) ==
    IF \E i \in 1..Len(calls) : calls[i] = name
    THEN CHOOSE i \in 1..Len(calls) : calls[i] = name
    ELSE 0

\* C23: in POST /identify record_request("identify") is applied only after
\* the gate allowed the request and the upload passed the presence, filename
\* and extension checks, and always before the classifier; a request rejected
\* for a missing or disallowed file leaves request_count as it was, and every
\* request that reaches the classifier has been counted.
C23_RecordOrdering ==
    \A s \in clients : \A j \in BOOLEAN, u \in Uploads :
        LET r   == upload_file(M, Key(s), BrowserFingerprint(s), now, j, u)
            rec == CallAt(r.calls, "record_request")
            cls == CallAt(r.calls, "classify")
            before == StatusOf(M, s).request_count
            after  == StatusOf(r.m, s).request_count
        IN  /\ rec # 0 => /\ r.allowed
                          /\ u \notin {"nofile", "emptyname", "badext"}
                          /\ CallAt(r.calls, "can_proceed") \in 1..(rec - 1)
            /\ cls # 0 => rec \in 1..(cls - 1)
            /\ u \in {"nofile", "emptyname", "badext"} => after = before
            /\ cls # 0 => after = before + 1
            /\ rec = 0 => after = before

\* after one upload was counted, an admitted upload was rejected for its file
\* and the count is still one
C23_Witness ==
    /\ note = "upload_rejected"
    /\ Len(reclog[Primary]) = 1
    /\ Count(request_counts, Key(Primary)) = 1

\* C24: a verify made at exactly now = issue time + captcha_timeout is
\* treated as expired: it returns Expired, also with the correct answer, and
\* the challenge is removed from the store.
C24_ExpiryBoundary ==
    \A cid \in Issued : \A s \in clients, k \in AnswerKinds :
        (/\ cid \in DOMAIN captcha_sessions
         /\ now = cinfo[cid].at + captcha_timeout)
        => LET v == VerifyBy(M, s, cid, k)
           IN  /\ v.outcome = "Expired"
               /\ cid \notin DOMAIN v.m.captcha_sessions

(* ---- concurrent POST /identify requests of one browser ---- *)
(* Each request runs upload_file in its own thread: the gate, then (for an   *)
(* upload that passes the file checks) record_request, then the classifier.  *)
(* The manager's calls are taken as atomic here; no lock spans two of them.  *)
uploadframe == <<clients, now, ticks, others, cinfo, attempted, consumed, vlast,
                 last_success, gate, note, draw, login_tokens>>

\* POST /identify arrives with the session's token and passes csrf_protect
Up_Start(t) ==
    /\ At(t, "idle")
    /\ conc.th[t].op = "none"
    /\ PostPasses(Primary, "upload_file")
    /\ conc' = [conc EXCEPT !.th[t].op = "upload", !.th[t].pc = "u_gate",
                            !.th[t].seen = now]
    /\ UNCHANGED <<uploadframe, session, csrf, request_counts, captcha_sessions,
                   trusted_browsers, reclog>>

\* allowed, reason = security.can_proceed('identify')
Up_Gate(t) ==
    LET g == Gate(Primary)
    IN  /\ At(t, "u_gate")
        /\ SetMgr(g.m)
        /\ conc' = IF g.allowed
                   THEN Goto(conc, t, "u_record")
                   ELSE [conc EXCEPT !.th[t].ret = "refused", !.th[t].pc = "done"]
        /\ UNCHANGED <<uploadframe, session, csrf, reclog>>

\* security.record_request('identify')
Up_Record(t) ==
    /\ At(t, "u_record")
    /\ SetMgr(record_request_action(M, ProtectedAction, Key(Primary), now))
    /\ reclog' = [reclog EXCEPT ![Primary] = Append(@, now)]
    /\ conc' = Goto(conc, t, "u_classify")
    /\ UNCHANGED <<uploadframe, session, csrf>>

\* result = identify_turtle_species_together_ai(temp_file_path)
Up_Classify(t) ==
    /\ At(t, "u_classify")
    /\ conc' = [conc EXCEPT !.th[t].ret = "classified", !.th[t].pc = "done"]
    /\ UNCHANGED <<uploadframe, session, csrf, request_counts, captcha_sessions,
                   trusted_browsers, reclog>>

\* the response has been sent; the thread serves the next request
Up_Done(t) ==
    /\ At(t, "done")
    /\ conc.th[t].op = "upload"
    /\ conc.th[t].ret = "refused"
    /\ conc' = [conc EXCEPT !.th[t].op = "none", !.th[t].pc = "idle",
                            !.th[t].ret = "none", !.th[t].seen = -1]
    /\ UNCHANGED <<uploadframe, session, csrf, request_counts, captcha_sessions,
                   trusted_browsers, reclog>>

UploadNext ==
    \/ Tick
    \/ GetPage(Primary)
    \/ \E t \in Threads : Up_Start(t)
    \/ \E t \in Threads : Up_Gate(t)
    \/ \E t \in Threads : Up_Record(t)
    \/ \E t \in Threads : Up_Classify(t)
    \/ \E t \in Threads : Up_Done(t)

SpecUpload == Init /\ [][UploadNext]_vars

\* the requests that reached the classifier and arrived less than a window ago
AdmittedInWindow ==
    {t \in Threads : /\ conc.th[t].op = "upload"
                     /\ conc.th[t].ret = "classified"
                     /\ now - conc.th[t].seen < rate_limit_window}

\* C25: for an untrusted identity, in every interleaving of its concurrent
\* POST /identify requests, at most max_requests_per_window of the requests
\* made within one rate-limit window reach the classifier.
C25_AdmissionBound ==
    ~TrustedByHistory(Primary)
    => Cardinality(AdmittedInWindow) <= max_requests_per_window

\* is_trusted of a session now
IsTrusted(s) == is_browser_trusted(trusted_browsers, BrowserFingerprint(s), now)

\* the verify calls a session can make: any answer for an id never issued
\* or for an issued one
VerifyInputs ==
    {<<cid, k>> \in (0..MaxCaptchas) \X AnswerKinds : k = "correct" => cid \in Issued}

\* C26: is_trusted of an identity changes from false to true only in a step
\* in which a verify returns Success on a stored challenge whose expires_at
\* (issue time plus captcha_timeout) has not been reached; every verify that
\* does not return Success leaves the trust entries and the request lists as
\* they were.
C26_TrustOnlyBySuccess ==
    [][/\ \A s \in clients :
              (~IsTrusted(s) /\ IsTrusted(s)')
              => /\ vlast'.cid \in Issued
                 /\ vlast'.outcome = "Success"
                 /\ vlast'.cid \in consumed' \ consumed
                 /\ vlast'.cid \in DOMAIN captcha_sessions
                 /\ Unexpired(vlast'.cid)
       /\ \A s \in clients : \A in \in VerifyInputs :
              LET v == VerifyBy(M, s, in[1], in[2])
              IN  v.outcome # "Success"
                  => /\ v.m.trusted_browsers = trusted_browsers
                     /\ v.m.request_counts = request_counts]_vars

\* C27: a verify submitted by a session whose browser fingerprint differs
\* from the one stored with the challenge at issue never returns Success and
\* makes no identity trusted, for any answer including the correct one.
C27_ChallengeBound ==
    \A cid \in Issued : \A s \in clients, k \in AnswerKinds :
        BrowserFingerprint(s) # cinfo[cid].fp
        => LET v == VerifyBy(M, s, cid, k)
           IN  /\ v.ret # TRUE
               /\ v.outcome \in {"InvalidChallenge", "Expired", "FingerprintMismatch"}
               /\ v.m.trusted_browsers = trusted_browsers
               /\ \A x \in clients :
                      is_browser_trusted(v.m.trusted_browsers, BrowserFingerprint(x), now)
                      = IsTrusted(x)

\* another browser submitted the correct answer for a stored, unexpired
\* challenge and was turned away for its fingerprint; nobody is trusted
C27_Witness ==
    /\ vlast.cid \in Issued
    /\ vlast.answer = "correct"
    /\ vlast.outcome = "FingerprintMismatch"
    /\ BrowserFingerprint(vlast.s) # cinfo[vlast.cid].fp
    /\ \A x \in clients : ~IsTrusted(x)

\* C28: after a successful verify in one session, is_trusted of every other
\* session is as it was before, also for a session from another client
\* address that sends the same fingerprint headers; the gate's decision for
\* the other session does not change.
C28_TrustConfined ==
    \A cid \in Issued : \A s \in clients :
        LET v == VerifyBy(M, s, cid, "correct")
        IN  v.outcome = "Success"
            => \A x \in clients \ {s} :
                   /\ is_browser_trusted(v.m.trusted_browsers, BrowserFingerprint(x), now)
                      = IsTrusted(x)
                   /\ can_proceed(v.m, ProtectedAction, Key(x), BrowserFingerprint(x),
                                  now).allowed = Gate(x).allowed

AfterOpsOf(a) ==
    LET fp == BrowserFingerprint(a)
    IN  {can_proceed(M, ProtectedAction, Key(a), fp, now).m,
         record_request_action(M, ProtectedAction, Key(a), now),
         [M EXCEPT !.captcha_sessions =
             create_captcha(captcha_sessions, Len(cinfo) + 1, draw[1], draw[2], draw[3],
                            fp, now).cs]}
        \cup {VerifyBy(M, a, in[1], in[2]).m : in \in VerifyInputs}

\* C30: can_proceed, record_request, issue and verify executed for identity
\* A, with the cleanup they trigger, never remove an in-window recorded
\* request, an unexpired challenge or an unexpired trust record of another
\* identity B; B's request_count, trust flag and live challenges are as before.
C30_Isolation ==
    \A a \in clients : \A b \in clients \ {a} : \A m \in AfterOpsOf(a) :
        /\ LiveTimes(m.request_counts, Key(b)) = LiveTimes(request_counts, Key(b))
        /\ is_browser_trusted(m.trusted_browsers, BrowserFingerprint(b), now) = IsTrusted(b)
        /\ \A c \in DOMAIN captcha_sessions :
               (/\ captcha_sessions[c].browser_fp = BrowserFingerprint(b)
                /\ ~captcha_expired(captcha_sessions[c], now))
               => (c \in DOMAIN m.captcha_sessions /\ m.captcha_sessions[c] = captcha_sessions[c])

====
